---- MODULE Spec2Model ----
(***************************************************************************)
(* Registration / login handlers of the crypto terminal auth service       *)
(* (src/src/auth.py) running against the users table (src/src/database/    *)
(* models.py).  Each HTTP request is handled on its own AsyncSession;      *)
(* requests interleave at every await.  register_user awaits twice         *)
(* (get_user_by_login, then create_db_user), login_user awaits once.       *)
(*                                                                         *)
(* The two source files disagree on the attributes of class User:          *)
(* models.py maps id, login, password, secret_key, while auth.py builds    *)
(* and reads login, password, mexc_api_key, mexc_api_secret.  userColumns  *)
(* holds the mapping the handlers run against and both are covered: with   *)
(* the mapping of models.py the constructor call in create_db_user raises  *)
(* TypeError (answered 500) and nothing is ever stored; with the mapping   *)
(* auth.py is written for, rows are stored and read back.                  *)
(*                                                                         *)
(* A row is the record of the columns the handlers set; the autoincrement  *)
(* id is never read by a handler and is left out.                          *)
(***************************************************************************)
EXTENDS Integers, Sequences, FiniteSets, Bags, TLC

VARIABLES
    userColumns,  \* the mapped attributes of the ORM class User
    users,        \* the committed rows of table "users"
    pending,      \* bag of register_user calls suspended between the pre-check and create_db_user
    response,     \* the response produced by the latest step, if that step finished a request
    registered    \* history: the bodies of the registrations answered 201

vars == <<userColumns, users, pending, response, registered>>

----------------------------------------------------------------------------
(* Bounds and input domains *)

\* number of register_user calls that may sit between pre-check and insert at once
MaxInFlight == 2

\* Field(..., min_length=3, max_length=50) on login, Field(..., min_length=6) on password
LoginMinLength == 3
LoginMaxLength == 50
PasswordMinLength == 6

\* a login of exactly LoginMaxLength characters, and one character more
Login50 == "aaaaaaaaaabbbbbbbbbbccccccccccddddddddddeeeeeeeeee"
Login51 == "aaaaaaaaaabbbbbbbbbbccccccccccddddddddddeeeeeeeeeef"

\* logins and passwords that pass validation (shortest and longest login, shortest password)
GoodLogins == {"bob", Login50}
GoodPasswords == {"secret", "hunter2"}

\* exchange key pairs a client may send; the empty string is a present field
Credentials == {<<"K1", "S1">>, <<"K2", "">>, <<"", "S2">>}

\* logins and passwords a client may type into the login form
FormLogins == GoodLogins \cup {"dave"}
FormPasswords == GoodPasswords

BodyFields == {"login", "password", "mexc_api_key", "mexc_api_secret"}

Body(l, p, c) == [login |-> l, password |-> p, mexc_api_key |-> c[1], mexc_api_secret |-> c[2]]

FullBodies == { Body(l, p, c) : l \in GoodLogins, p \in GoodPasswords, c \in Credentials }

Without(b, f) == [g \in (DOMAIN b) \ {f} |-> b[g]]

\* bodies with one field too short, too long or left out
BadBodies ==
    { Body("al", "secret", <<"K1", "S1">>),
      Body(Login51, "secret", <<"K1", "S1">>),
      Body("bob", "pw123", <<"K1", "S1">>) }
    \cup { Without(Body("bob", "secret", <<"K1", "S1">>), f) : f \in BodyFields }

\* JSON bodies of POST /auth/register
RegisterBodies == FullBodies \cup BadBodies

LoginForms == { [login |-> l, password |-> p] : l \in FormLogins, p \in FormPasswords }

----------------------------------------------------------------------------
(* The ORM class and the table *)

\* class User as models.py declares it
ModelColumns == {"id", "login", "password", "secret_key"}

\* class User as auth.py constructs and reads it
HandlerColumns == {"id", "login", "password", "mexc_api_key", "mexc_api_secret"}

\* nullable=False columns the INSERT must supply (id is filled by autoincrement)
NotNullColumns == {"login", "password", "secret_key"}

\* unique=True on login: the INSERT is rejected when a committed row holds the login
LoginUniqueViolation_off(table, row) == FALSE

LoginUniqueViolation(table, row) == \E u \in table : u.login = row.login

\* the store raises IntegrityError for the INSERT of row (flush inside db.commit())
IntegrityError(table, columns, row) ==
    \/ \E c \in (NotNullColumns \cap columns) : c \notin DOMAIN row
    \/ LoginUniqueViolation(table, row)

\* select(User).filter(User.login == login): the matching rows
get_user_by_login(table, login) == { u \in table : u.login = login }

\* scalar_one_or_none() raises when more than one row matches
MultipleResultsFound(result) == Cardinality(result) > 1

TheRow(result) == CHOOSE u \in result : TRUE

----------------------------------------------------------------------------
(* Responses *)

NoPayload == << >>

Payload(user) == <<user.login, user.mexc_api_key, user.mexc_api_secret>>

NoResponse ==
    [kind |-> "none", input |-> << >>, status |-> 0, detail |-> "", payload |-> NoPayload,
     late |-> FALSE, lookups |-> 0, attempted |-> FALSE, rejected |-> FALSE, rolledBack |-> FALSE]

HttpError(code, text) == [status |-> code, detail |-> text, payload |-> NoPayload]

ServerError == HttpError(500, "Internal Server Error")

Unauthorized == HttpError(401, "Incorrect terminal login or password")

KeysNotFound ==
    HttpError(404, "MEXC API keys not found for this user. Please register them or contact support.")

LoginTakenError == HttpError(409, "This login is already taken for the terminal.")

AlreadyRegisteredError == HttpError(409, "Login for the service already registered.")

\* FastAPI's answer to a body that fails UserCreateSchema
ValidationError == HttpError(422, "Unprocessable Entity")

LoginResponseSchema(code, user) == [status |-> code, detail |-> "", payload |-> Payload(user)]

----------------------------------------------------------------------------
(* Pure parts of the handlers *)

\* pydantic validation of the request body, run by FastAPI before register_user
UserCreateSchema_nopassword(body) ==
    /\ BodyFields \subseteq DOMAIN body
    /\ Len(body.login) >= LoginMinLength
    /\ Len(body.login) <= LoginMaxLength

UserCreateSchema(body) ==
    /\ BodyFields \subseteq DOMAIN body
    /\ Len(body.login) >= LoginMinLength
    /\ Len(body.login) <= LoginMaxLength
    /\ Len(body.password) >= PasswordMinLength

\* Python truthiness of a column value: None and "" are falsy
Falsy(value) == value = ""

\* `if existing_user:` in register_user
LoginTaken_never(existing_user) == FALSE

LoginTaken(existing_user) == existing_user # {}

\* User(login=..., password=..., mexc_api_key=..., mexc_api_secret=...): the declarative
\* constructor raises TypeError for a keyword that is not an attribute of the class
UserInitTypeError(columns, kwargs) == ~(DOMAIN kwargs \subseteq columns)

CreateOutcome(table, error, user, attempted, rejected, rolledBack) ==
    [table |-> table, error |-> error, user |-> user,
     attempted |-> attempted, rejected |-> rejected, rolledBack |-> rolledBack]

\* a variant that answers a rejected insert by overwriting the stored row
create_db_user_merge(table, columns, user_data) ==
    LET db_user == [f \in BodyFields |-> user_data[f]] IN
    IF UserInitTypeError(columns, db_user)
    THEN CreateOutcome(table, <<ServerError>>, << >>, FALSE, FALSE, FALSE)
    ELSE CreateOutcome({ u \in table : u.login # db_user.login } \cup {db_user},
                       << >>, <<db_user>>, TRUE, FALSE, FALSE)

\* create_db_user: build the row, db.add, db.commit, db.refresh; IntegrityError -> rollback, 409.
\* error is << >> when the function returns, <<e>> when it raises e.
create_db_user(table, columns, user_data) ==
    LET db_user == [f \in BodyFields |-> user_data[f]] IN
    IF UserInitTypeError(columns, db_user)
    THEN CreateOutcome(table, <<ServerError>>, << >>, FALSE, FALSE, FALSE)
    ELSE IF IntegrityError(table, columns, db_user)
    THEN CreateOutcome(table, <<AlreadyRegisteredError>>, << >>, TRUE, TRUE, TRUE)
    ELSE CreateOutcome(table \cup {db_user}, << >>, <<db_user>>, TRUE, FALSE, FALSE)

\* login_user without the existence half of the check: an unknown login falls through
login_user_leaky(table, columns, form) ==
    LET result == get_user_by_login(table, form.login) IN
    IF result = {} THEN KeysNotFound
    ELSE IF ~(TheRow(result).password = form.password) THEN Unauthorized
    ELSE IF Falsy(TheRow(result).mexc_api_key) \/ Falsy(TheRow(result).mexc_api_secret)
    THEN KeysNotFound
    ELSE LoginResponseSchema(200, TheRow(result))

\* login_user without the linked-keys check
login_user_nokeycheck(table, columns, form) ==
    LET result == get_user_by_login(table, form.login) IN
    IF result = {} \/ ~(TheRow(result).password = form.password) THEN Unauthorized
    ELSE LoginResponseSchema(200, TheRow(result))

\* login_user without the password half of the check
login_user_nopassword(table, columns, form) ==
    LET result == get_user_by_login(table, form.login) IN
    IF result = {} THEN Unauthorized
    ELSE IF Falsy(TheRow(result).mexc_api_key) \/ Falsy(TheRow(result).mexc_api_secret)
    THEN KeysNotFound
    ELSE LoginResponseSchema(200, TheRow(result))

\* login_user: one read, then the checks in the order of the code
login_user(table, columns, form) ==
    LET result == get_user_by_login(table, form.login) IN
    IF MultipleResultsFound(result) THEN ServerError
    ELSE IF result = {} \/ ~(TheRow(result).password = form.password) THEN Unauthorized
    ELSE IF "mexc_api_key" \notin columns THEN ServerError
    ELSE IF Falsy(TheRow(result).mexc_api_key) THEN KeysNotFound
    ELSE IF "mexc_api_secret" \notin columns THEN ServerError
    ELSE IF Falsy(TheRow(result).mexc_api_secret) THEN KeysNotFound
    ELSE LoginResponseSchema(200, TheRow(result))

Finished(kind, input, answer, late, lookups, outcome) ==
    [kind |-> kind, input |-> input, status |-> answer.status, detail |-> answer.detail,
     payload |-> answer.payload, late |-> late, lookups |-> lookups,
     attempted |-> outcome.attempted, rejected |-> outcome.rejected,
     rolledBack |-> outcome.rolledBack]

NoStoreWrite == [attempted |-> FALSE, rejected |-> FALSE, rolledBack |-> FALSE]

\* history: a registration with this login has already been answered 201
Late(body) == "login" \in DOMAIN body /\ \E r \in registered : r.login = body.login

----------------------------------------------------------------------------
(* Steps *)

\* the table as create_all leaves it at first start-up: no rows
Init ==
    /\ userColumns \in {ModelColumns, HandlerColumns}
    /\ users = {}
    /\ pending = EmptyBag
    /\ response = NoResponse
    /\ registered = {}

\* POST /auth/register up to the end of its first await: validation, then the pre-check
RegisterStart(body) ==
    LET existing_user == get_user_by_login(users, body.login) IN
    /\ IF ~UserCreateSchema(body)
       THEN /\ response' = Finished("register", body, ValidationError, Late(body), 0, NoStoreWrite)
            /\ pending' = pending
       ELSE IF MultipleResultsFound(existing_user)
       THEN /\ response' = Finished("register", body, ServerError, Late(body), 1, NoStoreWrite)
            /\ pending' = pending
       ELSE IF LoginTaken(existing_user)
       THEN /\ response' = Finished("register", body, LoginTakenError, Late(body), 1, NoStoreWrite)
            /\ pending' = pending
       ELSE /\ BagCardinality(pending) < MaxInFlight
            /\ pending' = pending (+) SetToBag({[body |-> body, late |-> Late(body)]})
            /\ response' = NoResponse
    /\ UNCHANGED <<userColumns, users, registered>>

\* the rest of register_user: create_db_user, then the 201 answer built from the created row
RegisterCreate(call) ==
    LET outcome == create_db_user(users, userColumns, call.body)
        answer == IF outcome.error # << >> THEN outcome.error[1]
                  ELSE LoginResponseSchema(201, outcome.user[1])
    IN
    /\ BagIn(call, pending)
    /\ pending' = pending (-) SetToBag({call})
    /\ users' = outcome.table
    /\ response' = Finished("register", call.body, answer, call.late, 1, outcome)
    /\ registered' = IF answer.status = 201 THEN registered \cup {call.body} ELSE registered
    /\ UNCHANGED userColumns

\* POST /auth/login: the whole handler, it awaits only its one read
Login(form) ==
    /\ response' = Finished("login", form, login_user(users, userColumns, form), FALSE, 1, NoStoreWrite)
    /\ UNCHANGED <<userColumns, users, pending, registered>>

Next ==
    \/ \E body \in RegisterBodies : RegisterStart(body)
    \/ \E call \in BagToSet(pending) : RegisterCreate(call)
    \/ \E form \in LoginForms : Login(form)

Spec == Init /\ [][Next]_vars

----------------------------------------------------------------------------
(* Properties *)

RowOf(body) == [f \in BodyFields |-> body[f]]

\* the field constraints a registration body can violate, as the data model states them
ViolatesConstraints(body) ==
    \/ ~(BodyFields \subseteq DOMAIN body)
    \/ Len(body.login) < 3
    \/ Len(body.login) > 50
    \/ Len(body.password) < 6

\* the login of the body is present and within 3..50 characters
HasValidLogin(body) ==
    /\ "login" \in DOMAIN body
    /\ Len(body.login) >= 3
    /\ Len(body.login) <= 50

\* C1: in every reachable state of the users table, whatever the interleaving of register
\* and login requests, no two rows have the same login.
C1_LoginUnique == \A u, v \in users : u.login = v.login => u = v

\* C1 witness: two registrations of one login both passed the pre-check; one committed and
\* the other's insert was rejected by the store.
C1_RaceLost ==
    /\ response.kind = "register"
    /\ response.rejected
    /\ \E u \in users : u.login = response.input.login /\ u # RowOf(response.input)

NoMatch(table, form) == ~ \E u \in table : u.login = form.login /\ u.password = form.password

\* C5: a login for an unknown login and a login with a wrong password get the same answer,
\* 401 with the one fixed message: any two refused forms are answered alike.
C5_SameUnauthorized ==
    /\ \A f, g \in LoginForms :
          (NoMatch(users, f) /\ NoMatch(users, g)) =>
              login_user(users, userColumns, f) = login_user(users, userColumns, g)
    /\ (response.kind = "login" /\ NoMatch(users, response.input)) =>
          /\ response.status = 401
          /\ response.detail = "Incorrect terminal login or password"
          /\ response.payload = NoPayload

\* C5 witness: a login with a registered login and a wrong password was refused while
\* another login is unknown to the store.
C5_WrongPasswordSeen ==
    /\ response.kind = "login"
    /\ response.status = 401
    /\ \E u \in users : u.login = response.input.login /\ u.password # response.input.password
    /\ \E f \in LoginForms : \A u \in users : u.login # f.login

\* C6: a registration whose fields violate the constraints is answered 422 before any store
\* access: it performs no lookup and no insert, never waits for an insert, and no row with
\* such fields exists.
C6_ValidationBeforeStore ==
    /\ (response.kind = "register" /\ ViolatesConstraints(response.input)) =>
          /\ response.status = 422
          /\ response.lookups = 0
          /\ ~response.attempted
    /\ \A call \in BagToSet(pending) : ~ViolatesConstraints(call.body)
    /\ \A u \in users : ~ViolatesConstraints(u)

\* C6 witness: a registration with a 5-character password was refused while the table
\* already held a row.
C6_ShortPasswordRefused ==
    /\ response.kind = "register"
    /\ response.status = 422
    /\ "password" \in DOMAIN response.input
    /\ Len(response.input.password) = 5
    /\ users # {}

\* C8: the table changes only by a registration answered 201 adding the one row built from
\* its body; a login or a failed registration leaves the table as it was, and no existing
\* row is ever changed or removed.
C8_OnlyAppend ==
    [][ /\ users \subseteq users'
        /\ (users' # users) =>
              /\ response'.kind = "register"
              /\ response'.status = 201
              /\ RowOf(response'.input) \notin users
              /\ users' = users \cup {RowOf(response'.input)}
        /\ (response' # response /\ response'.kind = "login") => users' = users
        /\ (response' # response /\ response'.kind = "register" /\ response'.status # 201) =>
              users' = users
      ]_vars

\* C8 witness: a second registration succeeded and its row stands next to the existing one.
C8_SecondRowAdded ==
    /\ response.kind = "register"
    /\ response.status = 201
    /\ Cardinality(users) = 2

\* C9: a login is answered 404 exactly when the stored password matched and the row has an
\* empty API key or API secret; an unknown login or a wrong password is answered 401.
C9_NotFoundOnlyAfterPassword ==
    response.kind = "login" =>
        LET matched == { u \in users : u.login = response.input.login
                                        /\ u.password = response.input.password }
        IN  /\ (matched = {}) => response.status = 401
            /\ (response.status = 404) <=>
                  \E u \in matched : u.mexc_api_key = "" \/ u.mexc_api_secret = ""
            /\ (response.status = 200) => \A x \in 2..3 : response.payload[x] # ""

\* C9 witness: a login with the right password for a user registered with an empty key
\* was answered 404.
C9_NotFoundSeen ==
    /\ response.kind = "login"
    /\ response.status = 404
    /\ \E u \in users : /\ u.login = response.input.login
                        /\ u.password = response.input.password
                        /\ u.mexc_api_key = ""

\* C10: a login is answered 200 only if the table holds a row with that login whose stored
\* password is exactly the submitted one, the payload returned is that row's, and the login
\* was registered by a registration answered 201.
C10_LoginSound ==
    (response.kind = "login" /\ response.status = 200) =>
        /\ \E u \in users :
              /\ u.login = response.input.login
              /\ u.password = response.input.password
              /\ response.payload = <<u.login, u.mexc_api_key, u.mexc_api_secret>>
        /\ \E r \in registered : r.login = response.input.login

\* C10 witness: a login succeeded while another user with another password is registered.
C10_LoginSucceeded ==
    /\ response.kind = "login"
    /\ response.status = 200
    /\ \E u \in users : u.login # response.input.login /\ u.password # response.input.password

====
